---- MODULE Spec2Model ----
(***************************************************************************)
(* LocalPlaywrightBrowser (magentic_ui/tools/playwright/browser/           *)
(* local_playwright_browser.py): the manager's three handles, the          *)
(* coroutines _start and _close cut at their await points, the             *)
(* browser_context property, and the external driver / remote browser the  *)
(* coroutines talk to.  Callers are asyncio tasks; a coroutine runs        *)
(* atomically between two awaits.                                          *)
(***************************************************************************)
EXTENDS Naturals, Integers, Sequences, FiniteSets, TLC

\* ---------------------------------------------------------------- bounds
NumTasks == 2        \* asyncio tasks that may call start/close on the manager
MaxCalls == 3        \* start/close calls made in one behaviour
MaxInitCtx == 1      \* contexts the remote browser may already have

Tasks == 1..NumTasks

\* ------------------------------------------------------------- constants
None == 0                                   \* Python None for a driver / browser handle
NoneCtx == [cid |-> 0, br |-> 0]            \* Python None for the context handle

DriverInitFaults == {"DriverInitFailed"}
ConnectFaults == {"ConnRefused", "HandshakeRejected"}
NewContextFaults == {"NewContextFailed"}

Unset == [kind |-> "unset", ctx |-> NoneCtx]
NoCall == [op |-> "none", kind |-> "none", exc |-> "", at |-> "", fault |-> "",
           phase |-> "-", drv |-> None, ops |-> <<>>]

\* What a call asks of the driver library, in the order it asks.
CdpEndpoint == "http://localhost:9222"
OpInit == <<"async_playwright.start", "">>
OpConnect == <<"chromium.connect_over_cdp", CdpEndpoint>>
OpReuse == <<"browser.contexts[0]", "">>
OpNewCtx == <<"browser.new_context", "">>
OpStop == <<"playwright.stop", "">>

\* ---------------------------------------------------------- configuration
NoStr == "<None>"                            \* Python None for an Optional[str]
Channels == {NoStr, "chrome"}
DataDirs == {NoStr, "", "./browser_data"}

\* LocalPlaywrightBrowserConfig: the values a configuration may take.
LocalPlaywrightBrowserConfig ==
    [headless : BOOLEAN, browser_channel : Channels, enable_downloads : BOOLEAN,
     persistent_context : BOOLEAN, browser_data_dir : DataDirs]

\* Variant of requires_persistent_context that tests the directory's truth
\* value instead of comparing it with None.
requires_persistent_context_Truthy(c) ==
    c.persistent_context /\ c.browser_data_dir \notin {NoStr, ""}

requires_persistent_context(c) ==
    c.persistent_context /\ c.browser_data_dir # NoStr

\* The configuration attributes __init__ stores on the manager.
__init__(headless, browser_channel, enable_downloads, persistent_context, browser_data_dir) ==
    [_headless |-> headless, _browser_channel |-> browser_channel,
     _enable_downloads |-> enable_downloads, _persistent_context |-> persistent_context,
     _browser_data_dir |-> browser_data_dir]

\* What constructing a manager or a configuration from c raises: nothing; no
\* field is validated against another.
ConstructError(c) == ""

_to_config(a) ==
    [headless |-> a._headless, browser_channel |-> a._browser_channel,
     enable_downloads |-> a._enable_downloads, persistent_context |-> a._persistent_context,
     browser_data_dir |-> a._browser_data_dir]

\* Variant of _from_config that does not pass browser_data_dir on.
_from_config_NoDataDir(c) ==
    __init__(c.headless, c.browser_channel, c.enable_downloads,
             c.persistent_context, NoStr)

_from_config(c) ==
    __init__(c.headless, c.browser_channel, c.enable_downloads,
             c.persistent_context, c.browser_data_dir)

\* LocalPlaywrightBrowser() with every argument left at its default.
DefaultConfig ==
    [headless |-> FALSE, browser_channel |-> NoStr, enable_downloads |-> FALSE,
     persistent_context |-> FALSE, browser_data_dir |-> NoStr]

NoView == [set |-> FALSE, cfg |-> DefaultConfig, requires |-> FALSE]

VARIABLES
    _playwright,    \* self._playwright: id of the driver held, or None
    _browser,       \* self._browser: the Browser handle, named by the driver it was connected through, or None
    _context,       \* self._context: [cid: remote context, br: browser handle it came from], or NoneCtx
    drivers,        \* external: sequence of driver processes [running, connects, stops]
    remote,         \* external: the remote browser [running, initial, contexts, closeCalls, ctxCloseCalls]
    pc,             \* per task: where its coroutine is suspended
    drvLocal,       \* per task: the driver object its pending await was made on
    phaseAtCall,    \* per task: lifecycle phase observed when its pending call was made
    last,           \* the call that completed most recently: [op, kind, exc, at, fault, phase, drv, ops]
    everStarted,    \* some start has completed successfully
    closedAfterStart, \* some close has completed after a successful start
    nCalls,         \* start/close calls made so far
    accResult,      \* what a browser_context access made in this state produced (Unset: none made)
    given,          \* the configuration the manager was constructed from
    attrs,          \* self._headless ... self._browser_data_dir
    cfgView         \* what a _to_config() call returned, and its requires_persistent_context

vars == <<_playwright, _browser, _context, drivers, remote, pc, drvLocal,
          phaseAtCall, last, everStarted, closedAfterStart, nCalls, accResult,
          given, attrs, cfgView>>

config == <<given, attrs, cfgView>>

handles == <<_playwright, _browser, _context>>

StartPcs == {"init", "connect", "newctx"}
InFlight(t) == pc[t] # "idle"

\* The lifecycle phase of spec section 3, read off the history of the calls.
Phase ==
    IF closedAfterStart THEN "Closed"
    ELSE IF everStarted THEN "Active"
    ELSE IF \E t \in Tasks : pc[t] \in StartPcs THEN "Starting"
    ELSE "Unstarted"

\* How a call of task t ends: the record of the completed call.
Ended(t, o, k, e, where, f, asked) ==
    [op |-> o, kind |-> k, exc |-> e, at |-> where, fault |-> f,
     phase |-> phaseAtCall[t], drv |-> drvLocal[t], ops |-> asked]

\* Task t is back in its caller.
Return(t) ==
    /\ pc' = [pc EXCEPT ![t] = "idle"]
    /\ phaseAtCall' = [phaseAtCall EXCEPT ![t] = "-"]
    /\ drvLocal' = [drvLocal EXCEPT ![t] = None]

\* ------------------------------------------------------------------ Init
\* The state __init__ leaves for a manager built from configuration c.
Constructed(c) ==
    /\ given = c
    /\ attrs = _from_config(c)
    /\ cfgView = NoView
    /\ _playwright = None
    /\ _browser = None
    /\ _context = NoneCtx
    /\ drivers = <<>>
    /\ \E n \in 0..MaxInitCtx :
          remote = [running |-> TRUE, initial |-> n, contexts |-> [i \in 1..n |-> i],
                    closeCalls |-> 0, ctxCloseCalls |-> 0]
    /\ pc = [t \in Tasks |-> "idle"]
    /\ drvLocal = [t \in Tasks |-> None]
    /\ phaseAtCall = [t \in Tasks |-> "-"]
    /\ last = NoCall
    /\ everStarted = FALSE
    /\ closedAfterStart = FALSE
    /\ nCalls = 0
    /\ accResult = Unset

Init == Constructed(DefaultConfig)

\* A manager built from any configuration.
InitCfg == \E c \in LocalPlaywrightBrowserConfig : Constructed(c)

\* ---------------------------------------------------------------- _start
\* A task calls _start: async_playwright().start() is invoked and awaited.
StartCall(t) ==
    /\ pc[t] = "idle"
    /\ nCalls < MaxCalls
    /\ nCalls' = nCalls + 1
    /\ pc' = [pc EXCEPT ![t] = "init"]
    /\ phaseAtCall' = [phaseAtCall EXCEPT ![t] = Phase]
    /\ accResult' = Unset
    /\ UNCHANGED config
    /\ UNCHANGED <<handles, drivers, remote, drvLocal, last, everStarted, closedAfterStart>>

\* The driver came up: self._playwright is assigned and connect_over_cdp is
\* invoked on it and awaited.
StartDriverOk(t) ==
    /\ pc[t] = "init"
    /\ LET d == Len(drivers) + 1 IN
          /\ drivers' = Append(drivers, [running |-> TRUE, connects |-> 1, stops |-> 0])
          /\ _playwright' = d
          /\ drvLocal' = [drvLocal EXCEPT ![t] = d]
    /\ pc' = [pc EXCEPT ![t] = "connect"]
    /\ accResult' = Unset
    /\ UNCHANGED config
    /\ UNCHANGED <<_browser, _context, remote, phaseAtCall, last,
                   everStarted, closedAfterStart, nCalls>>

\* The driver failed to initialise: the exception leaves _start (line 92 is
\* outside the try block) and nothing is assigned.
StartDriverFail(t) ==
    /\ pc[t] = "init"
    /\ \E e \in DriverInitFaults : last' = Ended(t, "start", "raised", e, "init", e, <<OpInit>>)
    /\ Return(t)
    /\ accResult' = Unset
    /\ UNCHANGED config
    /\ UNCHANGED <<handles, drivers, remote, everStarted, closedAfterStart, nCalls>>

\* Variant of StartConnectOk that ignores browser.contexts and always asks for
\* a new context.
StartConnectOk_AlwaysNew(t) ==
    /\ pc[t] = "connect"
    /\ drivers[drvLocal[t]].running
    /\ remote.running
    /\ _browser' = drvLocal[t]
    /\ pc' = [pc EXCEPT ![t] = "newctx"]
    /\ accResult' = Unset
    /\ UNCHANGED config
    /\ UNCHANGED <<_playwright, _context, drivers, remote, drvLocal, phaseAtCall, last,
                   everStarted, closedAfterStart, nCalls>>

\* Variant of StartConnectOk that asks for a context of its own when the
\* configuration requires a persistent context.
StartConnectOk_Persistent(t) ==
    /\ pc[t] = "connect"
    /\ drivers[drvLocal[t]].running
    /\ remote.running
    /\ _browser' = drvLocal[t]
    /\ IF remote.contexts # <<>> /\ ~requires_persistent_context(_to_config(attrs))
          THEN /\ _context' = [cid |-> remote.contexts[1], br |-> drvLocal[t]]
               /\ last' = Ended(t, "start", "ok", "", "connect", "", <<OpInit, OpConnect, OpReuse>>)
               /\ Return(t)
               /\ everStarted' = TRUE
          ELSE /\ pc' = [pc EXCEPT ![t] = "newctx"]
               /\ UNCHANGED <<_context, last, everStarted, phaseAtCall, drvLocal>>
    /\ accResult' = Unset
    /\ UNCHANGED config
    /\ UNCHANGED <<_playwright, drivers, remote, closedAfterStart, nCalls>>

\* The connection was made: self._browser is assigned; an existing context is
\* reused and _start returns, or new_context is invoked and awaited.
StartConnectOk(t) ==
    /\ pc[t] = "connect"
    /\ drivers[drvLocal[t]].running
    /\ remote.running
    /\ _browser' = drvLocal[t]
    /\ IF remote.contexts # <<>>
          THEN /\ _context' = [cid |-> remote.contexts[1], br |-> drvLocal[t]]
               /\ last' = Ended(t, "start", "ok", "", "connect", "", <<OpInit, OpConnect, OpReuse>>)
               /\ Return(t)
               /\ everStarted' = TRUE
          ELSE /\ pc' = [pc EXCEPT ![t] = "newctx"]
               /\ UNCHANGED <<_context, last, everStarted, phaseAtCall, drvLocal>>
    /\ accResult' = Unset
    /\ UNCHANGED config
    /\ UNCHANGED <<_playwright, drivers, remote, closedAfterStart, nCalls>>

\* Variant of StartConnectFail that tries connect_over_cdp once more before
\* giving up.
StartConnectFail_Retry(t) ==
    /\ pc[t] = "connect"
    /\ IF drivers[drvLocal[t]].connects < 2
          THEN /\ drivers' = [drivers EXCEPT ![drvLocal[t]].connects = @ + 1]
               /\ UNCHANGED <<pc, phaseAtCall, drvLocal, last>>
          ELSE /\ \E e \in ConnectFaults :
                     last' = Ended(t, "start", "raised", e, "connect", e,
                                   <<OpInit, OpConnect, OpConnect>>)
               /\ Return(t)
               /\ UNCHANGED drivers
    /\ accResult' = Unset
    /\ UNCHANGED config
    /\ UNCHANGED <<handles, remote, everStarted, closedAfterStart, nCalls>>

\* The connection failed: the except block prints and re-raises e.
StartConnectFail(t) ==
    /\ pc[t] = "connect"
    /\ \E e \in ConnectFaults :
          last' = Ended(t, "start", "raised", e, "connect", e, <<OpInit, OpConnect>>)
    /\ Return(t)
    /\ accResult' = Unset
    /\ UNCHANGED config
    /\ UNCHANGED <<handles, drivers, remote, everStarted, closedAfterStart, nCalls>>

\* new_context returned: the remote browser has one more context and
\* self._context is assigned.
StartNewCtxOk(t) ==
    /\ pc[t] = "newctx"
    /\ drivers[drvLocal[t]].running
    /\ remote.running
    /\ LET c == Len(remote.contexts) + 1 IN
          /\ remote' = [remote EXCEPT !.contexts = Append(@, c)]
          /\ _context' = [cid |-> c, br |-> drvLocal[t]]
    /\ last' = Ended(t, "start", "ok", "", "newctx", "", <<OpInit, OpConnect, OpNewCtx>>)
    /\ Return(t)
    /\ everStarted' = TRUE
    /\ accResult' = Unset
    /\ UNCHANGED config
    /\ UNCHANGED <<_playwright, _browser, drivers, closedAfterStart, nCalls>>

\* new_context failed: the except block prints and re-raises e.
StartNewCtxFail(t) ==
    /\ pc[t] = "newctx"
    /\ \E e \in NewContextFaults :
          last' = Ended(t, "start", "raised", e, "newctx", e, <<OpInit, OpConnect, OpNewCtx>>)
    /\ Return(t)
    /\ accResult' = Unset
    /\ UNCHANGED config
    /\ UNCHANGED <<handles, drivers, remote, everStarted, closedAfterStart, nCalls>>

\* _start run from its first line to its return or raise on a manager with
\* attributes a that holds no handle yet, facing an environment env that fails
\* the driver start, the connect or new_context with the fault it names ("":
\* the step works) and whose browser has the contexts env.contexts.  The result
\* is what the run asked of the driver library, how it ended and the handles
\* it left.
_start(a, env) ==
    LET d == 1 IN
    IF env.initFault # ""
       THEN [ops |-> <<OpInit>>, kind |-> "raised", exc |-> env.initFault,
             _playwright |-> None, _browser |-> None, _context |-> NoneCtx]
    ELSE IF env.connectFault # ""
       THEN [ops |-> <<OpInit, OpConnect>>, kind |-> "raised", exc |-> env.connectFault,
             _playwright |-> d, _browser |-> None, _context |-> NoneCtx]
    ELSE IF env.contexts # <<>>
       THEN [ops |-> <<OpInit, OpConnect, OpReuse>>, kind |-> "ok", exc |-> "",
             _playwright |-> d, _browser |-> d,
             _context |-> [cid |-> env.contexts[1], br |-> d]]
    ELSE IF env.newCtxFault # ""
       THEN [ops |-> <<OpInit, OpConnect, OpNewCtx>>, kind |-> "raised",
             exc |-> env.newCtxFault,
             _playwright |-> d, _browser |-> d, _context |-> NoneCtx]
    ELSE [ops |-> <<OpInit, OpConnect, OpNewCtx>>, kind |-> "ok", exc |-> "",
          _playwright |-> d, _browser |-> d,
          _context |-> [cid |-> 1, br |-> d]]

\* ---------------------------------------------------------------- _close
\* Variant of CloseCall that tests self._browser instead of self._playwright.
CloseCall_GuardBrowser(t) ==
    /\ pc[t] = "idle"
    /\ nCalls < MaxCalls
    /\ nCalls' = nCalls + 1
    /\ IF _browser # None
          THEN /\ drivers' = [drivers EXCEPT ![_playwright].stops = @ + 1]
               /\ drvLocal' = [drvLocal EXCEPT ![t] = _playwright]
               /\ phaseAtCall' = [phaseAtCall EXCEPT ![t] = Phase]
               /\ pc' = [pc EXCEPT ![t] = "stopping"]
               /\ UNCHANGED <<last, closedAfterStart>>
          ELSE /\ last' = [Ended(t, "close", "ok", "", "", "", <<>>) EXCEPT !.phase = Phase]
               /\ closedAfterStart' = (closedAfterStart \/ everStarted)
               /\ UNCHANGED <<drivers, pc, drvLocal, phaseAtCall>>
    /\ accResult' = Unset
    /\ UNCHANGED config
    /\ UNCHANGED <<handles, remote, everStarted>>

\* A task calls _close: with a driver held, stop() is invoked on it and
\* awaited; with none held, _close returns at once.
CloseCall(t) ==
    /\ pc[t] = "idle"
    /\ nCalls < MaxCalls
    /\ nCalls' = nCalls + 1
    /\ IF _playwright # None
          THEN /\ drivers' = [drivers EXCEPT ![_playwright].stops = @ + 1]
               /\ drvLocal' = [drvLocal EXCEPT ![t] = _playwright]
               /\ phaseAtCall' = [phaseAtCall EXCEPT ![t] = Phase]
               /\ pc' = [pc EXCEPT ![t] = "stopping"]
               /\ UNCHANGED <<last, closedAfterStart>>
          ELSE /\ last' = [Ended(t, "close", "ok", "", "", "", <<>>) EXCEPT !.phase = Phase]
               /\ closedAfterStart' = (closedAfterStart \/ everStarted)
               /\ UNCHANGED <<drivers, pc, drvLocal, phaseAtCall>>
    /\ accResult' = Unset
    /\ UNCHANGED config
    /\ UNCHANGED <<handles, remote, everStarted>>

\* Variant of CloseStopDone that also closes the browser it is connected to.
CloseStopDone_ClosesBrowser(t) ==
    /\ pc[t] = "stopping"
    /\ drivers' = [drivers EXCEPT ![drvLocal[t]].running = FALSE]
    /\ remote' = IF _browser # None
                    THEN [remote EXCEPT !.running = FALSE, !.closeCalls = @ + 1]
                    ELSE remote
    /\ last' = Ended(t, "close", "ok", "", "stop", "", <<OpStop>>)
    /\ Return(t)
    /\ closedAfterStart' = (closedAfterStart \/ everStarted)
    /\ accResult' = Unset
    /\ UNCHANGED config
    /\ UNCHANGED <<handles, everStarted, nCalls>>

\* stop() returned: the driver process is gone and _close returns.
CloseStopDone(t) ==
    /\ pc[t] = "stopping"
    /\ drivers' = [drivers EXCEPT ![drvLocal[t]].running = FALSE]
    /\ last' = Ended(t, "close", "ok", "", "stop", "", <<OpStop>>)
    /\ Return(t)
    /\ closedAfterStart' = (closedAfterStart \/ everStarted)
    /\ accResult' = Unset
    /\ UNCHANGED config
    /\ UNCHANGED <<handles, remote, everStarted, nCalls>>

\* ------------------------------------------------------- browser_context
\* Variant of browser_context without the None test.
browser_context_NoCheck == [kind |-> "handle", ctx |-> _context]

browser_context ==
    IF _context = NoneCtx
       THEN [kind |-> "RuntimeError", ctx |-> NoneCtx]
       ELSE [kind |-> "handle", ctx |-> _context]

\* A caller reads the property; nothing of the manager changes.
Access ==
    /\ accResult' = browser_context
    /\ UNCHANGED config
    /\ UNCHANGED <<handles, drivers, remote, pc, drvLocal, phaseAtCall, last,
                   everStarted, closedAfterStart, nCalls>>

\* ------------------------------------------------------------ _to_config
\* A caller dumps the manager's configuration and reads the derived property.
ToConfigCall ==
    /\ cfgView' = [set |-> TRUE, cfg |-> _to_config(attrs),
                   requires |-> requires_persistent_context(_to_config(attrs))]
    /\ UNCHANGED <<given, attrs, accResult>>
    /\ UNCHANGED <<handles, drivers, remote, pc, drvLocal, phaseAtCall, last,
                   everStarted, closedAfterStart, nCalls>>

\* ------------------------------------------------------------------ Next
Next ==
    \/ \E t \in Tasks : StartCall(t)
    \/ \E t \in Tasks : StartDriverOk(t)
    \/ \E t \in Tasks : StartDriverFail(t)
    \/ \E t \in Tasks : StartConnectOk(t)
    \/ \E t \in Tasks : StartConnectFail(t)
    \/ \E t \in Tasks : StartNewCtxOk(t)
    \/ \E t \in Tasks : StartNewCtxFail(t)
    \/ \E t \in Tasks : CloseCall(t)
    \/ \E t \in Tasks : CloseStopDone(t)
    \/ Access

Spec == Init /\ [][Next]_vars

\* A manager built from any configuration, and one caller that awaits each
\* call before it makes the next: a sequence of start and close calls.
Caller == 1

NextSeq ==
    \/ StartCall(Caller)
    \/ StartDriverOk(Caller)
    \/ StartDriverFail(Caller)
    \/ StartConnectOk(Caller)
    \/ StartConnectFail(Caller)
    \/ StartNewCtxOk(Caller)
    \/ StartNewCtxFail(Caller)
    \/ CloseCall(Caller)
    \/ CloseStopDone(Caller)
    \/ Access
    \/ ToConfigCall

SpecSeq == InitCfg /\ [][NextSeq]_vars

\* ================================================================ claims

\* Steps of one task, told from the state before and after.
StartSucceeds(t) ==
    pc[t] \in StartPcs /\ pc'[t] = "idle" /\ last'.op = "start" /\ last'.kind = "ok"
ConnectFails(t) ==
    pc[t] = "connect" /\ pc'[t] = "idle" /\ last'.kind = "raised"
StopReturns(t) ==
    pc[t] = "stopping" /\ pc'[t] = "idle"
Quiet == \A t \in Tasks : pc[t] = "idle"

\* C1: whatever start, close and accessor calls are made, the remote browser
\* is never asked to close and neither is a context of it: the browser keeps
\* running, every context it had or was given is still there, and the context
\* the manager holds is one of them.
C1_RemoteNeverClosed ==
    /\ remote.running
    /\ remote.closeCalls = 0
    /\ remote.ctxCloseCalls = 0
    /\ Len(remote.contexts) >= remote.initial
    /\ \A i \in DOMAIN remote.contexts : remote.contexts[i] = i
    /\ _context # NoneCtx => \E i \in DOMAIN remote.contexts : remote.contexts[i] = _context.cid

\* A close has shut the driver down after a successful start; the browser and
\* the context are still there.
C1_Witness ==
    /\ last.op = "close" /\ last.at = "stop" /\ last.phase = "Active"
    /\ closedAfterStart
    /\ ~drivers[last.drv].running
    /\ _context # NoneCtx
    /\ remote.running

\* C2: while no start has completed successfully, an access of browser_context
\* raises RuntimeError; it returns neither a handle nor None.
C2_NotStartedRaises ==
    (accResult # Unset /\ ~everStarted) =>
        accResult = [kind |-> "RuntimeError", ctx |-> NoneCtx]

\* The accessor raised after one start failed and while another is suspended
\* at new_context, its browser handle already set.
C2_Witness ==
    /\ accResult.kind = "RuntimeError"
    /\ last.op = "start" /\ last.kind = "raised"
    /\ \E t \in Tasks : pc[t] = "newctx"
    /\ _browser # None

\* C3 (as claimed): once a close has completed on a started manager, an access
\* of browser_context raises RuntimeError.
C3_Original ==
    (accResult # Unset /\ closedAfterStart) => accResult.kind = "RuntimeError"

\* C4 (as claimed): a start called on an Active manager is rejected with an
\* invalid-state error: it is never in flight, and it ends raising that error
\* without having acquired a driver.
C4_Original ==
    /\ \A t \in Tasks : pc[t] \in StartPcs => phaseAtCall[t] # "Active"
    /\ (last.op = "start" /\ last.phase = "Active") =>
          (last.kind = "raised" /\ last.exc = "InvalidStateError" /\ last.drv = None)

\* C5 (as claimed): a close called when the manager is Closed, or Unstarted
\* with no driver acquired so far, is a no-op: it calls nothing on a driver,
\* leaves every handle and the remote browser alone and returns normally.
\* (Unstarted after a start that got past driver initialisation is C8's case.)
C5_Original ==
    [][\A t \in Tasks :
          (CloseCall(t) /\ (Phase = "Closed" \/ (Phase = "Unstarted" /\ drivers = <<>>)))
             => /\ drivers' = drivers
                /\ handles' = handles
                /\ remote' = remote
                /\ pc'[t] = "idle"
                /\ last'.op = "close" /\ last'.kind = "ok"]_vars

\* C6: a start that succeeds leaves a handle in the accessor; a start that
\* returns from the connect step found contexts on the browser, holds the first
\* of them and created none; a start goes on to new_context only when the
\* browser had no context, and then creates exactly one and holds that one.
C6_ReuseOrCreateOne ==
    [][\A t \in Tasks :
          /\ StartSucceeds(t) =>
                /\ browser_context' = [kind |-> "handle", ctx |-> _context']
                /\ _context'.br = drvLocal[t]
                /\ IF pc[t] = "connect"
                      THEN /\ remote.contexts # <<>>
                           /\ _context'.cid = remote.contexts[1]
                           /\ remote' = remote
                      ELSE /\ Len(remote'.contexts) = Len(remote.contexts) + 1
                           /\ SubSeq(remote'.contexts, 1, Len(remote.contexts)) = remote.contexts
                           /\ _context'.cid = remote'.contexts[Len(remote'.contexts)]
                           /\ \A i \in DOMAIN remote.contexts : remote.contexts[i] # _context'.cid
          /\ (pc[t] = "connect" /\ pc'[t] = "newctx") =>
                (remote.contexts = <<>> /\ remote' = remote /\ _context' = _context)]_vars

\* On a browser that started without a context, one start created a context
\* and a later start found it and reused it.
C6_Witness ==
    /\ remote.initial = 0
    /\ remote.contexts = <<1>>
    /\ last.op = "start" /\ last.kind = "ok" /\ last.at = "connect"
    /\ _context = [cid |-> 1, br |-> last.drv]
    /\ last.drv = 2

\* C7: a start whose connect fails raises the very exception the connect
\* raised, has called connect once on its driver, and leaves self._browser and
\* self._context as they were.
C7_ConnectFailure ==
    [][\A t \in Tasks :
          ConnectFails(t) =>
             /\ last'.op = "start"
             /\ last'.fault \in ConnectFaults
             /\ last'.exc = last'.fault
             /\ drivers'[drvLocal[t]].connects = 1
             /\ _browser' = _browser
             /\ _context' = _context]_vars

\* The first start failed at connect: the driver is held, nothing else is.
C7_Witness ==
    /\ last.op = "start" /\ last.kind = "raised" /\ last.at = "connect"
    /\ last.exc = "ConnRefused"
    /\ nCalls = 1
    /\ _playwright = last.drv /\ _playwright # None
    /\ _browser = None /\ _context = NoneCtx

\* C8: a close called when some start has acquired a driver calls stop() on
\* the driver of the latest such start, whatever became of that start, and
\* returns normally with that driver shut down; a close called when no start
\* has acquired a driver (every start failed at driver initialisation) calls
\* nothing on any driver and returns normally.
C8_CloseReleasesDriver ==
    [][\A t \in Tasks :
          /\ CloseCall(t) =>
                IF drivers # <<>>
                   THEN /\ pc'[t] = "stopping"
                        /\ drvLocal'[t] = Len(drivers)
                        /\ drivers'[Len(drivers)].stops = drivers[Len(drivers)].stops + 1
                   ELSE /\ pc'[t] = "idle"
                        /\ last'.op = "close" /\ last'.kind = "ok"
                        /\ drivers' = drivers
          /\ StopReturns(t) =>
                /\ ~drivers'[drvLocal[t]].running
                /\ last'.op = "close" /\ last'.kind = "ok"]_vars

\* The only start failed at connect, and the close that followed has shut its
\* driver down.
C8_Witness ==
    /\ Quiet
    /\ nCalls = 2
    /\ Len(drivers) = 1
    /\ _browser = None /\ _context = NoneCtx
    /\ last.op = "close" /\ last.kind = "ok" /\ last.at = "stop" /\ last.drv = 1
    /\ ~drivers[1].running

\* C9 (as claimed): a call made while another call is in flight is rejected,
\* so two calls are never in flight together.
C9_Original ==
    \A t1, t2 \in Tasks : (InFlight(t1) /\ InFlight(t2)) => t1 = t2

\* C10 (as claimed): a start called on a Closed manager acquires no driver and
\* does not succeed.
C10_Original ==
    /\ \A t \in Tasks : pc[t] \in {"connect", "newctx"} => phaseAtCall[t] # "Closed"
    /\ (last.op = "start" /\ last.phase = "Closed") => last.kind # "ok"

\* C12 (as claimed): the driver handle is held only while the manager is
\* Starting or Active; it is absent in Unstarted (also after a failed start)
\* and in Closed.
C12_Original ==
    _playwright # None => Phase \in {"Starting", "Active"}

\* C15 (as claimed): when a sequence of start and close calls ends with a
\* completed close, every driver a start of the sequence acquired has been
\* shut down.
C15_Original ==
    (Quiet /\ last.op = "close") =>
        \A d \in DOMAIN drivers : ~drivers[d].running

\* C17 (as claimed): whenever a context handle is held, a browser handle and a
\* driver handle are held too, the context came from the held browser, and the
\* held browser was connected through the held driver.
C17_Original ==
    _context # NoneCtx =>
        /\ _browser # None
        /\ _playwright # None
        /\ _context.br = _browser
        /\ _browser = _playwright

\* C11 (as claimed): a manager or configuration with persistent_context set
\* and browser_data_dir absent or empty cannot be constructed: construction
\* raises a configuration error.
C11_Original ==
    (given.persistent_context /\ given.browser_data_dir \in {NoStr, ""}) =>
        ConstructError(given) = "ConfigError"

\* C13: requires_persistent_context is true exactly when persistent_context is
\* true and browser_data_dir is not None; with persistent_context true and no
\* directory it is false, and with a directory and persistent_context false
\* it is false.
C13_RequiresPersistent ==
    cfgView.set =>
        /\ cfgView.requires <=>
              (given.persistent_context /\ given.browser_data_dir \in {"", "./browser_data"})
        /\ (given.persistent_context /\ given.browser_data_dir = NoStr) => ~cfgView.requires
        /\ (~given.persistent_context /\ given.browser_data_dir # NoStr) => ~cfgView.requires

\* The property was read on a configuration with persistent_context set and
\* no directory, and it was false.
C13_Witness ==
    /\ cfgView.set
    /\ given.persistent_context /\ given.browser_data_dir = NoStr
    /\ ~cfgView.requires

\* C14: the manager built from configuration c gives c back from _to_config,
\* field by field, in every state that start and close calls lead to.
C14_RoundTrip ==
    /\ _to_config(attrs) = given
    /\ _to_config(_from_config(given)) = given
    /\ cfgView.set => cfgView.cfg = given
    /\ \A f \in {"headless", "browser_channel", "enable_downloads",
                 "persistent_context", "browser_data_dir"} :
          _to_config(attrs)[f] = given[f]

\* A configuration with no field at its default has come back unchanged after
\* a start and a close.
C14_Witness ==
    /\ given = [headless |-> TRUE, browser_channel |-> "chrome", enable_downloads |-> TRUE,
                persistent_context |-> TRUE, browser_data_dir |-> "./browser_data"]
    /\ closedAfterStart /\ last.op = "close"
    /\ cfgView.set /\ cfgView.cfg = given

\* The first call on the manager was a start, and it is over.
FirstStartOver == nCalls = 1 /\ pc[Caller] = "idle" /\ last.op = "start"

\* What the environment did to that start.
FacedEnv ==
    [initFault |-> IF last.at = "init" THEN last.fault ELSE "",
     connectFault |-> IF last.at = "connect" /\ last.kind = "raised" THEN last.fault ELSE "",
     contexts |-> [i \in 1..remote.initial |-> i],
     newCtxFault |-> IF last.at = "newctx" /\ last.kind = "raised" THEN last.fault ELSE ""]

\* What that start did and left.
StartObserved ==
    [ops |-> last.ops, kind |-> last.kind, exc |-> last.exc,
     _playwright |-> _playwright, _browser |-> _browser, _context |-> _context]

====
